---- MODULE Spec2Model ----
(***************************************************************************)
(* A model of mcp-image-generators: the generator registry and the tool    *)
(* server built from it (registery.py, main.py), options construction      *)
(* (main.py), the Flux and RunPod NanoBanana responses and their           *)
(* resolution to a URL (imagen/flux.py, imagen/runpod_nanobanana.py,       *)
(* utils/s3.py), the nearest-aspect-ratio helper (utils/utils.py) and the  *)
(* generate/edit tool invocations on a shared generator (main.py).         *)
(***************************************************************************)
EXTENDS Integers, Sequences, FiniteSets, TLC

VARIABLES
    \* ---- response resolution (imagen/flux.py, imagen/runpod_nanobanana.py, utils/s3.py)
    pc,         \* where the caller of generate/edit and url() stands
    backend,    \* the client whose generate/edit was called, None before the call
    fr,         \* the response object (FluxResponse / RunpodNanoBananaResponse), None before creation
    genStatus,  \* HTTP status of the creation request, None before it
    polled,     \* statuses the status endpoint answered during the current url() call
    everReady,  \* history: a poll of this response has answered Ready
    returned,   \* the URLs the url() calls have returned, in call order
    err,        \* the exception that ended the last call, None if it did not raise
    net,        \* counters of the network calls issued
    urlCalls,   \* number of url() calls made on the response
    s3,         \* counters of copy_url_to_s3: calls, clients created, assets fetched
    \* ---- the server process
    environ,    \* os.environ: the value of each object-storage variable, empty when unset
    uuid,       \* number of uuid4 keys drawn so far
    \* ---- tool invocations (main.py) on the generator instance build_mcp created
    calls,      \* per invocation of a generate/edit tool: its position, locals and step log
    instance,   \* the generator instance `gen` the tools of one backend share
    \* ---- options construction (main.py)
    optType,    \* the options type a tool was built for
    payload,    \* the caller's payload: a mapping from keys to values
    payloadIn,  \* history: the payload as the caller passed it
    objs,       \* the results of the _build_options_object calls, in call order
    schema,     \* the last answer of the generate_schema / edit_schema tool
    \* ---- registry and tool server (registery.py, main.py)
    REGISTERED_GENERATORS,  \* the registry dict: (name, class) entries in dict order
    registrations,          \* history: the (name, class) pairs registered, in call order
    phase,                  \* "import" while modules register, "serving" once build_mcp returned
    generators,             \* build_mcp's copy of the registry
    tools,                  \* the tools registered on the FastMCP server
    listing,                \* the last answer of the image-list tool
    \* ---- aspect-ratio inference (utils/utils.py, imagen/runpod_nanobanana.py)
    size,          \* (w, h) of the source image, the first of the request's images
    allowed,       \* the allowed_ratios list handed to get_nearest_aspect_ratio
    nearest,       \* what get_nearest_aspect_ratio(size, allowed) returned, NoRatio before
    images,        \* sizes of the images at options.image_urls of an edit request
    aspect_ratio   \* options.aspect_ratio of the edit request, NoRatio for None

resolveVars ==
    <<pc, backend, fr, genStatus, polled, everReady, returned, err, net, urlCalls, s3>>

processVars == <<environ, uuid>>

invokeVars == <<calls, instance>>

optionVars == <<optType, payload, payloadIn, objs, schema>>

serverVars == <<REGISTERED_GENERATORS, registrations, phase, generators, tools, listing>>

ratioVars == <<size, allowed, nearest, images, aspect_ratio>>

vars == <<resolveVars, processVars, invokeVars, optionVars, serverVars, ratioVars>>

\* What the operations of one part of the program leave alone.
outsideResolve == <<invokeVars, optionVars, serverVars, ratioVars>>
outsideOptions == <<resolveVars, processVars, invokeVars, serverVars, ratioVars>>
outsideServer == <<resolveVars, processVars, invokeVars, optionVars, ratioVars>>
outsideRatio == <<resolveVars, processVars, invokeVars, optionVars, serverVars>>
outsideInvoke == <<resolveVars, optionVars, serverVars, ratioVars>>

None == "None"

\* Python's None where a URL, a response object or a status code is expected.
NoUrl == [scheme |-> "none", name |-> "", ext |-> ""]
NoPublicUrl == [cdn |-> <<>>, key |-> 0, ext |-> ""]
NoResponse ==
    [kind |-> "none", image |-> None, polling_url |-> None, request_id |-> None,
     retriveal_url |-> NoUrl, output |-> NoUrl]
NoStatus == 0

Last(s) == s[Len(s)]

(***************************************************************************)
(* Bounds of the model.                                                    *)
(***************************************************************************)
MaxPolls == 3       \* status polls per response
MaxUrlCalls == 2    \* url() calls per response
MaxBuilds == 2      \* _build_options_object calls per payload
MaxRegistrations == 3   \* register / register_generator calls at import
MaxSide == 24       \* width and height of a source image, in pixels
MaxInvocations == 2 \* tool invocations in flight on one generator instance

(***************************************************************************)
(* Python floats: IEEE 754 binary64 with round-half-to-even, for the       *)
(* positive values utils/utils.py computes. A float is [m, e]: m the 53    *)
(* bits of the significand, most significant first, e the exponent of      *)
(* m[1]; zero has the empty significand.                                   *)
(***************************************************************************)
SignificandBits == 53

Zeros(n) == [i \in 1 .. n |-> 0]

FloatZero == [m |-> << >>, e |-> 0]

\* The n binary digits of the number q < 2^n, most significant first.
DigitsOf(q, n) == [i \in 1 .. n |-> (q \div 2^(n - i)) % 2]

\* The number a string of at most 13 binary digits denotes.
RECURSIVE ValueOf(_)
ValueOf(bits) ==
    IF bits = << >> THEN 0
    ELSE 2 * ValueOf(SubSeq(bits, 1, Len(bits) - 1)) + bits[Len(bits)]

\* bits + 1, one bit longer when the carry runs out of the top.
Increment(bits) ==
    LET zeroAt == { i \in 1 .. Len(bits) : bits[i] = 0 }
    IN  IF zeroAt = {} THEN << 1 >> \o Zeros(Len(bits))
        ELSE LET p == CHOOSE i \in zeroAt : \A j \in zeroAt : j <= i
             IN  [i \in 1 .. Len(bits) |->
                    IF i < p THEN bits[i] ELSE IF i = p THEN 1 ELSE 0]

\* The float nearest to the number whose binary digits are `bits` (first
\* digit 1, of exponent e), ties going to the even significand; `more`
\* says that nonzero digits follow beyond `bits`.
RoundToFloat(bits, e, more) ==
    IF Len(bits) <= SignificandBits
    THEN [m |-> bits \o Zeros(SignificandBits - Len(bits)), e |-> e]
    ELSE LET kept == SubSeq(bits, 1, SignificandBits)
             guard == bits[SignificandBits + 1]
             sticky == more \/ \E i \in (SignificandBits + 2) .. Len(bits) : bits[i] = 1
             up == guard = 1 /\ (sticky \/ kept[SignificandBits] = 1)
             inc == Increment(kept)
         IN  IF ~up THEN [m |-> kept, e |-> e]
             ELSE IF Len(inc) > SignificandBits
                  THEN [m |-> SubSeq(inc, 1, SignificandBits), e |-> e + 1]
                  ELSE [m |-> inc, e |-> e]

\* The exponent of a / b: the k with 2^k <= a / b < 2^(k+1).
RECURSIVE ExponentOf(_, _)
ExponentOf(a, b) ==
    IF a >= 2 * b THEN 1 + ExponentOf(a, 2 * b)
    ELSE IF a < b THEN ExponentOf(2 * a, b) - 1
    ELSE 0

\* n binary digits of r / d after the point (r < d), 13 at a time, then
\* whether a remainder is left.
RECURSIVE DivisionDigits(_, _, _)
DivisionDigits(r, d, n) ==
    IF n = 0 THEN [bits |-> << >>, more |-> r # 0]
    ELSE LET step == IF n < 13 THEN n ELSE 13
             rest == DivisionDigits((r * 2^step) % d, d, n - step)
         IN  [bits |-> DigitsOf((r * 2^step) \div d, step) \o rest.bits,
              more |-> rest.more]

\* a / b of two positive ints (Python's true division, correctly rounded)
FloatDiv(a, b) ==
    LET k == ExponentOf(a, b)
        num == IF k >= 0 THEN a ELSE a * 2^(0 - k)
        den == IF k >= 0 THEN b * 2^k ELSE b
        digits == DivisionDigits(num - den, den, SignificandBits)
    IN  RoundToFloat(<< 1 >> \o digits.bits, k, digits.more)

\* A digit string as numbers of 13 digits each, zeros added in front.
Limbs(bits) ==
    LET pad == (13 - (Len(bits) % 13)) % 13
        padded == Zeros(pad) \o bits
    IN  [k \in 1 .. (Len(padded) \div 13) |->
            ValueOf(SubSeq(padded, 13 * (k - 1) + 1, 13 * k))]

\* Comparison of two limb strings of the same length.
LimbsLess(x, y) ==
    LET differ == { k \in 1 .. Len(x) : x[k] # y[k] }
    IN  differ # {} /\ LET k == CHOOSE i \in differ : \A j \in differ : i <= j
                       IN  x[k] < y[k]

\* x - y for limb strings of the same length, x >= y: the limbs 1 .. k of
\* the difference, `borrow` coming in from the right.
RECURSIVE LimbsMinus(_, _, _, _)
LimbsMinus(x, y, k, borrow) ==
    IF k = 0 THEN << >>
    ELSE LET diff == x[k] - y[k] - borrow
         IN  LimbsMinus(x, y, k - 1, IF diff < 0 THEN 1 ELSE 0)
                \o << IF diff < 0 THEN diff + 2^13 ELSE diff >>

\* The digits of a limb string.
DigitsOfLimbs(limbs) ==
    [i \in 1 .. (13 * Len(limbs)) |->
        (limbs[((i - 1) \div 13) + 1] \div 2^(12 - ((i - 1) % 13))) % 2]

\* abs(x - y) of two positive floats: the exact difference, rounded.
FloatAbsDiff(x, y) ==
    LET top == IF x.e >= y.e THEN x.e ELSE y.e
        low == IF x.e >= y.e THEN y.e ELSE x.e
        xl == Limbs(Zeros(top - x.e) \o x.m \o Zeros(x.e - low))
        yl == Limbs(Zeros(top - y.e) \o y.m \o Zeros(y.e - low))
        pad == 13 * Len(xl) - (SignificandBits + top - low)
        diff == DigitsOfLimbs(IF LimbsLess(xl, yl)
                              THEN LimbsMinus(yl, xl, Len(xl), 0)
                              ELSE LimbsMinus(xl, yl, Len(xl), 0))
        ones == { i \in 1 .. Len(diff) : diff[i] = 1 }
    IN  IF ones = {} THEN FloatZero
        ELSE LET first == CHOOSE i \in ones : \A j \in ones : i <= j
             IN  RoundToFloat(SubSeq(diff, first, Len(diff)), top - (first - pad - 1), FALSE)

\* Comparison of two digit strings of the same length.
BitsLess(x, y) ==
    LET differ == { i \in 1 .. Len(x) : x[i] # y[i] }
    IN  differ # {} /\ LET k == CHOOSE i \in differ : \A j \in differ : i <= j
                       IN  x[k] < y[k]

\* x < y for two non-negative floats
FloatLess(x, y) ==
    IF y.m = << >> THEN FALSE
    ELSE IF x.m = << >> THEN TRUE
    ELSE IF x.e # y.e THEN x.e < y.e
    ELSE BitsLess(x.m, y.m)

(***************************************************************************)
(* utils/utils.py: get_nearest_aspect_ratio, and its use by edit_image     *)
(* (imagen/runpod_nanobanana.py). A ratio string is the sequence of its    *)
(* characters.                                                             *)
(***************************************************************************)
Digits == [c \in {"0", "1", "2", "3", "4", "5", "6", "7", "8", "9"} |->
            CASE c = "0" -> 0 [] c = "1" -> 1 [] c = "2" -> 2 [] c = "3" -> 3
              [] c = "4" -> 4 [] c = "5" -> 5 [] c = "6" -> 6 [] c = "7" -> 7
              [] c = "8" -> 8 [] c = "9" -> 9]

\* int(s) for a string of decimal digits
RECURSIVE ParseInt(_)
ParseInt(chars) ==
    IF chars = << >> THEN 0
    ELSE 10 * ParseInt(SubSeq(chars, 1, Len(chars) - 1)) + Digits[chars[Len(chars)]]

\* rw, rh = map(int, ratio_str.split(":"))
SplitRatio(ratio_str) ==
    LET colon == CHOOSE i \in 1 .. Len(ratio_str) : ratio_str[i] = ":"
    IN  [rw |-> ParseInt(SubSeq(ratio_str, 1, colon - 1)),
         rh |-> ParseInt(SubSeq(ratio_str, colon + 1, Len(ratio_str)))]

\* ratio_value(ratio_str)
ratio_value(ratio_str) == FloatDiv(SplitRatio(ratio_str).rw, SplitRatio(ratio_str).rh)

\* key=lambda r: abs(ratio_value(r) - target_ratio)
Distance(ratio_str, target_ratio) == FloatAbsDiff(ratio_value(ratio_str), target_ratio)

\* min(allowed_ratios, key=...): the scan keeps its candidate, the element
\* at `best` with key `bestKey`, unless a later element has a strictly
\* smaller key.
RECURSIVE MinByKey(_, _, _, _, _)
MinByKey(allowed_ratios, target_ratio, i, best, bestKey) ==
    IF i > Len(allowed_ratios) THEN allowed_ratios[best]
    ELSE LET key == Distance(allowed_ratios[i], target_ratio)
         IN  IF FloatLess(key, bestKey)
             THEN MinByKey(allowed_ratios, target_ratio, i + 1, i, key)
             ELSE MinByKey(allowed_ratios, target_ratio, i + 1, best, bestKey)

\* get_nearest_aspect_ratio(size, allowed_ratios)
get_nearest_aspect_ratio(sz, allowed_ratios) ==
    LET target_ratio == FloatDiv(sz[1], sz[2])
    IN  MinByKey(allowed_ratios, target_ratio, 2, 1,
                 Distance(allowed_ratios[1], target_ratio))

\* get_literal_values(RunpodNanoBananaImageEditingOptions, "aspect_ratio")
LiteralAspectRatios ==
    << <<"1", ":", "1">>, <<"3", ":", "2">>, <<"2", ":", "3">>, <<"3", ":", "4">>,
       <<"4", ":", "3">>, <<"4", ":", "5">>, <<"5", ":", "4">>, <<"9", ":", "1", "6">>,
       <<"1", "6", ":", "9">>, <<"2", "1", ":", "9">> >>

\* Lists handed to get_nearest_aspect_ratio: the NanoBanana literals, the
\* Flux literals, and two short lists.
AllowedLists ==
    { LiteralAspectRatios,
      << <<"1", ":", "1">>, <<"1", "6", ":", "9">>, <<"9", ":", "1", "6">>,
         <<"4", ":", "3">>, <<"2", "1", ":", "9">> >>,
      << <<"1", ":", "1">>, <<"1", "6", ":", "9">>, <<"9", ":", "1", "6">> >>,
      << <<"2", ":", "3">>, <<"4", ":", "3">> >> }

\* Pixel sizes of source images.
Sizes == (1 .. MaxSide) \X (1 .. MaxSide)

\* Sizes of the images of an edit request after the first.
OtherImages == { << >>, << <<16, 9>> >> }

NoRatio == << >>

RatioOff ==
    /\ size = <<1, 1>>
    /\ allowed = << >>
    /\ nearest = NoRatio
    /\ images = << >>
    /\ aspect_ratio = NoRatio

RatioStart ==
    /\ size \in Sizes
    /\ allowed = << >>
    /\ nearest = NoRatio
    /\ images = << >>
    /\ aspect_ratio = NoRatio

\* a call get_nearest_aspect_ratio(size, allowed_ratios)
GetNearestAspectRatio ==
    /\ UNCHANGED outsideRatio
    /\ nearest = NoRatio
    /\ \E allowed_ratios \in AllowedLists :
        /\ allowed' = allowed_ratios
        /\ nearest' = get_nearest_aspect_ratio(size, allowed_ratios)
    /\ UNCHANGED <<size, images, aspect_ratio>>

\* RunpodNanoBananaClient.edit_image, `if options.aspect_ratio is None:`
\* for a request whose first image has the size `size`.
EditImageInfersRatio ==
    /\ UNCHANGED outsideRatio
    /\ nearest = NoRatio
    /\ \E others \in OtherImages :
        /\ images' = << size >> \o others
        /\ allowed' = LiteralAspectRatios
        /\ nearest' = get_nearest_aspect_ratio((<< size >> \o others)[1], LiteralAspectRatios)
        /\ aspect_ratio' = nearest'
    /\ UNCHANGED size

NextRatio ==
    \/ GetNearestAspectRatio
    \/ EditImageInfersRatio

(***************************************************************************)
(* Claims about aspect-ratio inference.                                    *)
(***************************************************************************)
AbsInt(n) == IF n < 0 THEN 0 - n ELSE n

\* |a/b - w/h| <= |c/d - w/h| for the ratios r = "a:b", q = "c:d", decided
\* in integers: both sides times b * d * h.
NoFarther(r, q, sz) ==
    LET a == SplitRatio(r).rw
        b == SplitRatio(r).rh
        c == SplitRatio(q).rw
        d == SplitRatio(q).rh
    IN  AbsInt(a * sz[2] - sz[1] * b) * d <= AbsInt(c * sz[2] - sz[1] * d) * b

\* The first element of the list whose distance to the size's ratio is
\* minimal over the list.
FirstNearest(list, sz) ==
    LET minimal == { i \in 1 .. Len(list) :
                        \A j \in 1 .. Len(list) : NoFarther(list[i], list[j], sz) }
    IN  list[CHOOSE i \in minimal : \A j \in minimal : i <= j]

\* C10: get_nearest_aspect_ratio returns the first element of the allowed
\* list whose |a/b - w/h| is minimal over the list, and an edit request
\* without aspect ratio gets that element for its first image's size.
C10_NearestIsFirstMinimal ==
    /\ nearest # NoRatio => nearest = FirstNearest(allowed, size)
    /\ aspect_ratio # NoRatio => aspect_ratio = FirstNearest(LiteralAspectRatios, images[1])

(***************************************************************************)
(* The generator registry (registery.py) and the tool server (main.py).    *)
(***************************************************************************)
\* The generator classes of imagen/.
Classes == {"FluxClient", "RunpodNanoBananaClient"}

\* cls.__dict__: the attributes the class body itself defines.
ClassDict(cls) ==
    CASE cls = "FluxClient" -> {"Config", "__init__", "generate_image", "readme"}
      [] cls = "RunpodNanoBananaClient" -> {"Config", "__init__", "edit_image", "readme"}
      [] OTHER -> {}

\* The attributes ImageGenerator defines, which every generator inherits.
InheritedAttributes == {"__init__", "generate_image", "edit_image", "readme"}

\* Names given to @register_generator(name).
DecoratorNames == {"flux", "nanobanana"}

\* The keys of a dict, as a set, and its value at a key.
Keys(d) == { d[i].name : i \in 1 .. Len(d) }
Lookup(d, k) == d[CHOOSE i \in 1 .. Len(d) : d[i].name = k].cls

\* A registration that keeps the entry a name already has.
DictSetDefault(d, k, v) ==
    IF k \in Keys(d) THEN d ELSE Append(d, [name |-> k, cls |-> v])

\* REGISTERED_GENERATORS[name] = cls: a new key goes last, an existing key
\* keeps its place and takes the new value.
DictSet(d, k, v) ==
    IF k \in Keys(d)
    THEN [ i \in 1 .. Len(d) |-> IF d[i].name = k THEN [name |-> k, cls |-> v] ELSE d[i] ]
    ELSE Append(d, [name |-> k, cls |-> v])

\* A test of capability by attribute lookup, which inheritance satisfies.
HasAttribute(cls, method_name) == method_name \in ClassDict(cls) \cup InheritedAttributes

\* _is_overridden(cls, method_name)
is_overridden(cls, method_name) == method_name \in ClassDict(cls)

\* f"image-{gen_name}-{kind}"
ToolName(gen_name, kind) == [gen |-> gen_name, kind |-> kind]

ImageList == [gen |-> "", kind |-> "image-list"]

\* A loop body that registers the generate tools of every generator.
ToolsOfGeneratorAlwaysGenerate(gen_name, gen_cls) ==
    {ToolName(gen_name, "readme"), ToolName(gen_name, "generate_schema"),
     ToolName(gen_name, "generate")}
    \cup (IF is_overridden(gen_cls, "edit_image")
          THEN {ToolName(gen_name, "edit_schema"), ToolName(gen_name, "edit")} ELSE {})

\* build_mcp, the body of `for gen_name, gen_cls in generators.items()`:
\* the tools one generator contributes.
ToolsOfGenerator(gen_name, gen_cls) ==
    {ToolName(gen_name, "readme")}
    \cup (IF is_overridden(gen_cls, "generate_image")
          THEN {ToolName(gen_name, "generate_schema"), ToolName(gen_name, "generate")} ELSE {})
    \cup (IF is_overridden(gen_cls, "edit_image")
          THEN {ToolName(gen_name, "edit_schema"), ToolName(gen_name, "edit")} ELSE {})

\* build_mcp.list_generators: its answer for the generators it closed over.
ListGeneratorsOutput(gens) ==
    [ i \in 1 .. Len(gens) |->
        [name |-> gens[i].name,
         class |-> gens[i].cls,
         generate |-> is_overridden(gens[i].cls, "generate_image"),
         edit |-> is_overridden(gens[i].cls, "edit_image")] ]

NotListed == << [name |-> "", class |-> "", generate |-> FALSE, edit |-> FALSE] >>

ServerOff ==
    /\ REGISTERED_GENERATORS = << >>
    /\ registrations = << >>
    /\ phase = "off"
    /\ generators = << >>
    /\ tools = {}
    /\ listing = NotListed

ServerStart ==
    /\ REGISTERED_GENERATORS = << >>
    /\ registrations = << >>
    /\ phase = "import"
    /\ generators = << >>
    /\ tools = {}
    /\ listing = NotListed

\* @register_generator(name) applied to a class while imagen/ is imported
register_generator ==
    /\ UNCHANGED outsideServer
    /\ phase = "import"
    /\ Len(registrations) < MaxRegistrations
    /\ \E name \in DecoratorNames : \E cls \in Classes :
        /\ REGISTERED_GENERATORS' = DictSet(REGISTERED_GENERATORS, name, cls)
        /\ registrations' = Append(registrations, [name |-> name, cls |-> cls])
    /\ UNCHANGED <<phase, generators, tools, listing>>

\* @register applied to a class: the name is cls.__name__
register ==
    /\ UNCHANGED outsideServer
    /\ phase = "import"
    /\ Len(registrations) < MaxRegistrations
    /\ \E cls \in Classes :
        /\ REGISTERED_GENERATORS' = DictSet(REGISTERED_GENERATORS, cls, cls)
        /\ registrations' = Append(registrations, [name |-> cls, cls |-> cls])
    /\ UNCHANGED <<phase, generators, tools, listing>>

\* build_mcp()
build_mcp ==
    /\ UNCHANGED outsideServer
    /\ phase = "import"
    /\ phase' = "serving"
    /\ generators' = REGISTERED_GENERATORS
    /\ tools' = {ImageList} \cup
                UNION { ToolsOfGenerator(REGISTERED_GENERATORS[i].name,
                                         REGISTERED_GENERATORS[i].cls) :
                            i \in 1 .. Len(REGISTERED_GENERATORS) }
    /\ UNCHANGED <<REGISTERED_GENERATORS, registrations, listing>>

\* a call of the image-list tool
list_generators ==
    /\ UNCHANGED outsideServer
    /\ phase = "serving"
    /\ ImageList \in tools
    /\ listing' = ListGeneratorsOutput(generators)
    /\ UNCHANGED <<REGISTERED_GENERATORS, registrations, phase, generators, tools>>

Next ==
    \/ register_generator
    \/ register
    \/ build_mcp
    \/ list_generators

(***************************************************************************)
(* Claims about the registry and the tool server.                          *)
(***************************************************************************)
RegisteredNames == { registrations[i].name : i \in 1 .. Len(registrations) }

\* The class given in the most recent registration of a name.
LastRegistered(n) ==
    LET idx == { i \in 1 .. Len(registrations) : registrations[i].name = n }
    IN  registrations[CHOOSE i \in idx : \A j \in idx : j <= i].cls

\* The place of the first registration of a name.
FirstRegistration(n) ==
    LET idx == { i \in 1 .. Len(registrations) : registrations[i].name = n }
    IN  CHOOSE i \in idx : \A j \in idx : i <= j

Listed == listing # NotListed

ListedNames == { listing[i].name : i \in 1 .. Len(listing) }

\* C7: once the server is built, an answer of image-list names exactly the
\* registered backends, each once, with generate (edit) true iff the class
\* registered last under that name defines generate_image (edit_image)
\* itself.
C7_ListIsRegistry ==
    (phase = "serving" /\ Listed) =>
        /\ ListedNames = RegisteredNames
        /\ Len(listing) = Cardinality(RegisteredNames)
        /\ \A i \in 1 .. Len(listing) :
              /\ listing[i].generate <=>
                    ("generate_image" \in ClassDict(LastRegistered(listing[i].name)))
              /\ listing[i].edit <=>
                    ("edit_image" \in ClassDict(LastRegistered(listing[i].name)))

\* C7 witness: image-list answered for a served registry holding both
\* backends, flux able to generate only and nanobanana to edit only.
C7_Witness ==
    /\ phase = "serving" /\ Listed
    /\ \E i, j \in 1 .. Len(listing) :
        /\ listing[i].name = "flux" /\ listing[i].generate /\ ~listing[i].edit
        /\ listing[j].name = "nanobanana" /\ ~listing[j].generate /\ listing[j].edit

\* C8: in the built server, for every registered name the generate and
\* generate_schema tools exist iff the backend defines generate_image, the
\* edit and edit_schema tools exist iff it defines edit_image, the readme
\* tool always exists, no tool exists for an unregistered name, and the
\* flags image-list reports agree with the tools that exist.
C8_ToolsMatchCapabilities ==
    phase = "serving" =>
        /\ \A n \in RegisteredNames :
              /\ ToolName(n, "readme") \in tools
              /\ (ToolName(n, "generate") \in tools) <=>
                    ("generate_image" \in ClassDict(LastRegistered(n)))
              /\ (ToolName(n, "generate_schema") \in tools) <=>
                    ("generate_image" \in ClassDict(LastRegistered(n)))
              /\ (ToolName(n, "edit") \in tools) <=>
                    ("edit_image" \in ClassDict(LastRegistered(n)))
              /\ (ToolName(n, "edit_schema") \in tools) <=>
                    ("edit_image" \in ClassDict(LastRegistered(n)))
        /\ \A t \in tools : t = ImageList \/ t.gen \in RegisteredNames
        /\ Listed => \A i \in 1 .. Len(listing) :
              /\ listing[i].generate <=> (ToolName(listing[i].name, "generate") \in tools)
              /\ listing[i].edit <=> (ToolName(listing[i].name, "edit") \in tools)

\* C8 witness: a built server where flux has its generate tools and no
\* edit tools, and nanobanana the reverse.
C8_Witness ==
    /\ phase = "serving"
    /\ {"flux", "nanobanana"} \subseteq RegisteredNames
    /\ ToolName("flux", "generate") \in tools
    /\ ToolName("flux", "edit") \notin tools
    /\ ToolName("nanobanana", "edit_schema") \in tools
    /\ ToolName("nanobanana", "generate_schema") \notin tools
    /\ Listed

\* C9: after any sequence of registrations the registry holds exactly the
\* names registered so far (none disappears), each mapped to the class of
\* its most recent registration, and iterates the names in the order in
\* which they were first registered.
C9_LastRegistrationWins ==
    /\ Keys(REGISTERED_GENERATORS) = RegisteredNames
    /\ Len(REGISTERED_GENERATORS) = Cardinality(RegisteredNames)
    /\ \A n \in RegisteredNames : Lookup(REGISTERED_GENERATORS, n) = LastRegistered(n)
    /\ \A i, j \in 1 .. Len(REGISTERED_GENERATORS) :
          i < j => FirstRegistration(REGISTERED_GENERATORS[i].name)
                     < FirstRegistration(REGISTERED_GENERATORS[j].name)

\* C9 witness: a name was registered twice with different classes, another
\* name in between, and the registry holds the later class.
C9_Witness ==
    /\ Len(registrations) = 3
    /\ registrations[1].name = registrations[3].name
    /\ registrations[1].cls # registrations[3].cls
    /\ registrations[2].name # registrations[1].name
    /\ Lookup(REGISTERED_GENERATORS, registrations[1].name) = registrations[3].cls
    /\ REGISTERED_GENERATORS[1].name = registrations[1].name

(***************************************************************************)
(* Options types (imagen/flux.py, imagen/runpod_nanobanana.py,             *)
(* imagen/abstract.py) and options construction (main.py).                 *)
(***************************************************************************)
MISSING == "MISSING"

Required(n) == [name |-> n, default |-> MISSING]
Optional(n, v) == [name |-> n, default |-> v]

OptionTypes ==
    {"ImageGenerationOptions", "ImageEditionOptions", "FluxImageGeneratorOptions",
     "FluxImageEditionOptions", "RunpodNanoBananaImageEditingOptions"}

\* dataclasses.fields(dc_type): the declared fields, in declaration order.
fields(t) ==
    CASE t = "FluxImageGeneratorOptions" ->
            << Required("prompt"), Optional("model", "flux-2-max"),
               Optional("aspect_ratio", "1:1") >>
      [] t = "RunpodNanoBananaImageEditingOptions" ->
            << Required("prompt"), Required("image_urls"), Optional("resolution", "1k"),
               Optional("aspect_ratio", None) >>
      [] OTHER -> << >>

\* dataclasses.is_dataclass(options_type): the three base types are
\* decorated, and FluxImageEditionOptions inherits __dataclass_fields__.
is_dataclass(t) == t \in OptionTypes

FieldNames(t) == { fields(t)[i].name : i \in 1 .. Len(fields(t)) }

\* _defaults_from_dataclass(dc_type)
defaults_from_dataclass(t) ==
    LET withDefault == { i \in 1 .. Len(fields(t)) : fields(t)[i].default # MISSING }
    IN  [ n \in { fields(t)[i].name : i \in withDefault } |->
            (CHOOSE f \in { fields(t)[i] : i \in withDefault } : f.name = n).default ]

\* _defaults_from_init_signature(t): the parameters of t.__init__ that have
\* a default; for the types above these are the fields with a default.
defaults_from_init_signature(t) == defaults_from_dataclass(t)

\* A merge in which the declared defaults win over the payload.
MergeDefaultsWin(defaults, given) ==
    [ k \in DOMAIN defaults \cup DOMAIN given |->
        IF k \in DOMAIN defaults THEN defaults[k] ELSE given[k] ]

\* {**defaults, **payload}
Merge(defaults, given) ==
    [ k \in DOMAIN defaults \cup DOMAIN given |->
        IF k \in DOMAIN given THEN given[k] ELSE defaults[k] ]

\* The i-th and later fields of t that kwargs leaves without a value and
\* that have no default, in declaration order.
RECURSIVE MissingFrom(_, _, _)
MissingFrom(t, kwargs, i) ==
    IF i > Len(fields(t)) THEN << >>
    ELSE IF fields(t)[i].name \notin DOMAIN kwargs /\ fields(t)[i].default = MISSING
         THEN << fields(t)[i].name >> \o MissingFrom(t, kwargs, i + 1)
         ELSE MissingFrom(t, kwargs, i + 1)

NoObject == << >>

\* options_type(**kwargs): the __init__ that @dataclass generates. Python
\* binds the keywords first (an unknown one is a TypeError), then reports
\* the parameters left without a value, then assigns every field.
Construct(t, kwargs) ==
    IF DOMAIN kwargs \ FieldNames(t) # {}
    THEN [ok |-> FALSE, obj |-> NoObject, error |-> "unexpected keyword argument",
          names |-> << >>, unexpected |-> DOMAIN kwargs \ FieldNames(t)]
    ELSE IF MissingFrom(t, kwargs, 1) # << >>
    THEN [ok |-> FALSE, obj |-> NoObject, error |-> "missing required positional arguments",
          names |-> MissingFrom(t, kwargs, 1), unexpected |-> {}]
    ELSE [ok |-> TRUE,
          obj |-> [ n \in FieldNames(t) |->
                     IF n \in DOMAIN kwargs THEN kwargs[n]
                     ELSE (CHOOSE f \in { fields(t)[i] : i \in 1 .. Len(fields(t)) } :
                                f.name = n).default ],
          error |-> None, names |-> << >>, unexpected |-> {}]

\* A builder that drops the payload keys the type does not declare.
build_options_object_lenient(t, given) ==
    Construct(t, Merge(defaults_from_dataclass(t),
                       [ k \in DOMAIN given \cap FieldNames(t) |-> given[k] ]))

\* _build_options_object(options_type, payload)
build_options_object(t, given) ==
    IF is_dataclass(t)
    THEN Construct(t, Merge(defaults_from_dataclass(t), given))
    ELSE Construct(t, Merge(defaults_from_init_signature(t), given))

\* The caller's dict after _build_options_object: the merge copies it.
PayloadAfterBuild(t, given) == given

\* Keys and values of the payloads a caller sends; "seed" is a key that no
\* options type declares.
PayloadKeys == {"prompt", "model", "aspect_ratio", "image_urls", "resolution", "seed"}
PayloadValues == {"a cat", "1k"}
Payloads == UNION { [K -> PayloadValues] : K \in SUBSET PayloadKeys }

\* _type_to_str(f.type) of a declared field: f.type is the annotation as
\* written in the class body (the modules postpone annotations) and none
\* contains "typing.", so the label is that text, abridged here.
type_label(t, n) ==
    CASE n = "prompt" -> "str"
      [] n = "image_urls" -> "List[str]"
      [] n = "aspect_ratio" /\ t = "RunpodNanoBananaImageEditingOptions" -> "Literal[...] | None"
      [] OTHER -> "Literal[...]"

\* props[name] = entry: a new key goes last, an existing key keeps its place.
PropsSet(props, name, entry) ==
    IF \E i \in 1 .. Len(props) : props[i].name = name
    THEN [ i \in 1 .. Len(props) |->
            IF props[i].name = name THEN [name |-> name, entry |-> entry] ELSE props[i] ]
    ELSE Append(props, [name |-> name, entry |-> entry])

\* An introspection that takes a field for required when its default is None.
RECURSIVE SchemaLoopByNone(_, _, _, _)
SchemaLoopByNone(t, i, props, required) ==
    IF i > Len(fields(t))
    THEN [type |-> "object", properties |-> props, required |-> required]
    ELSE LET f == fields(t)[i]
             default == IF f.default # MISSING THEN f.default ELSE None
         IN  SchemaLoopByNone(t, i + 1,
                 PropsSet(props, f.name,
                          [type |-> type_label(t, f.name), default |-> default]),
                 IF default = None THEN Append(required, f.name) ELSE required)

options_schema_required_by_none(t) == SchemaLoopByNone(t, 1, << >>, << >>)

\* The loop of _options_schema from the i-th field on: has_default is
\* "default is not MISSING", the reported default is None without one, and a
\* field without default is appended to required.
RECURSIVE SchemaLoop(_, _, _, _)
SchemaLoop(t, i, props, required) ==
    IF i > Len(fields(t))
    THEN [type |-> "object", properties |-> props, required |-> required]
    ELSE LET f == fields(t)[i]
             has_default == f.default # MISSING
             default == IF f.default # MISSING THEN f.default ELSE None
         IN  SchemaLoop(t, i + 1,
                 PropsSet(props, f.name,
                          [type |-> type_label(t, f.name), default |-> default]),
                 IF ~has_default THEN Append(required, f.name) ELSE required)

\* _options_schema(options_type): every options type of the repository is a
\* dataclass; the signature branch lists the parameters of __init__, which
\* for these types are the fields.
options_schema(t) == SchemaLoop(t, 1, << >>, << >>)

NoSchema == [type |-> "none", properties |-> << >>, required |-> << >>]

OptionsOff ==
    /\ optType = None
    /\ payload = << >>
    /\ payloadIn = << >>
    /\ objs = << >>
    /\ schema = NoSchema

OptionsStart ==
    /\ optType \in OptionTypes
    /\ payload \in Payloads
    /\ payloadIn = payload
    /\ objs = << >>
    /\ schema = NoSchema

\* opt_obj = _build_options_object(opt_type, options) in a generate/edit tool
BuildOptions ==
    /\ UNCHANGED outsideOptions
    /\ Len(objs) < MaxBuilds
    /\ objs' = Append(objs, build_options_object(optType, payload))
    /\ payload' = PayloadAfterBuild(optType, payload)
    /\ UNCHANGED <<optType, payloadIn, schema>>

\* generate_schema() / edit_schema(): return _options_schema(opt_type)
OptionsSchema ==
    /\ UNCHANGED outsideOptions
    /\ schema' = options_schema(optType)
    /\ UNCHANGED <<optType, payload, payloadIn, objs>>

NextOptions ==
    \/ BuildOptions
    \/ OptionsSchema

(***************************************************************************)
(* Claims about options construction.                                      *)
(***************************************************************************)
RequiredNames(t) ==
    { fields(t)[i].name : i \in { j \in 1 .. Len(fields(t)) : fields(t)[j].default = MISSING } }

DeclaredDefault(t, n) ==
    (CHOOSE f \in { fields(t)[i] : i \in 1 .. Len(fields(t)) } : f.name = n).default

\* The first field of t, in declaration order, that has no default and is
\* not a key of the payload; None when there is none.
FirstMissing(t, given) ==
    LET idx == { i \in 1 .. Len(fields(t)) :
                    fields(t)[i].default = MISSING /\ fields(t)[i].name \notin DOMAIN given }
    IN  IF idx = {} THEN None
        ELSE fields(t)[CHOOSE i \in idx : \A j \in idx : i <= j].name

\* C5 as stated: construction succeeds iff every field without a default is
\* a key of the payload, and otherwise fails naming the first missing field.
C5_SucceedsIffRequiredPresent ==
    \A i \in 1 .. Len(objs) :
        /\ objs[i].ok <=> RequiredNames(optType) \subseteq DOMAIN payloadIn
        /\ ~objs[i].ok =>
              /\ objs[i].names # << >>
              /\ objs[i].names[1] = FirstMissing(optType, payloadIn)

\* C5 amended: construction succeeds iff every field without a default is a
\* key of the payload and every key of the payload is a declared field; an
\* empty payload succeeds iff every field has a default; a payload of
\* declared keys that lacks a required field fails with an error naming the
\* missing fields in declaration order, the first missing field first; a
\* payload with an undeclared key fails with an error naming such a key.
C5_SucceedsIffRequiredPresentAndKeysDeclared ==
    \A i \in 1 .. Len(objs) :
        /\ objs[i].ok <=>
              /\ RequiredNames(optType) \subseteq DOMAIN payloadIn
              /\ DOMAIN payloadIn \subseteq FieldNames(optType)
        /\ payloadIn = << >> => (objs[i].ok <=> RequiredNames(optType) = {})
        /\ (DOMAIN payloadIn \subseteq FieldNames(optType) /\ ~objs[i].ok) =>
              /\ objs[i].error = "missing required positional arguments"
              /\ objs[i].names[1] = FirstMissing(optType, payloadIn)
              /\ { objs[i].names[j] : j \in 1 .. Len(objs[i].names) }
                    = RequiredNames(optType) \ DOMAIN payloadIn
        /\ ~(DOMAIN payloadIn \subseteq FieldNames(optType)) =>
              /\ objs[i].error = "unexpected keyword argument"
              /\ objs[i].unexpected # {}
              /\ objs[i].unexpected \subseteq DOMAIN payloadIn \ FieldNames(optType)

\* C5 witness: a payload of declared keys that lacks both required fields
\* of the NanoBanana options was refused, naming prompt first.
C5_Witness ==
    /\ optType = "RunpodNanoBananaImageEditingOptions"
    /\ DOMAIN payloadIn = {"resolution"}
    /\ Len(objs) = 1
    /\ ~objs[1].ok
    /\ objs[1].names = << "prompt", "image_urls" >>

\* C6: for a payload whose keys are declared fields covering the required
\* ones, every field of the constructed object is the payload's value when
\* the payload has the field and the declared default otherwise; repeated
\* constructions give equal objects and the payload is left as it was.
C6_PayloadOverridesDefaults ==
    (/\ DOMAIN payloadIn \subseteq FieldNames(optType)
     /\ RequiredNames(optType) \subseteq DOMAIN payloadIn) =>
        /\ payload = payloadIn
        /\ \A i \in 1 .. Len(objs) :
              /\ objs[i].ok
              /\ DOMAIN objs[i].obj = FieldNames(optType)
              /\ \A n \in FieldNames(optType) :
                    objs[i].obj[n] = IF n \in DOMAIN payloadIn THEN payloadIn[n]
                                     ELSE DeclaredDefault(optType, n)
              /\ objs[i] = objs[1]

\* C6 witness: the Flux options were built twice from a payload giving the
\* prompt and overriding the model; aspect_ratio took its default.
C6_Witness ==
    /\ optType = "FluxImageGeneratorOptions"
    /\ DOMAIN payloadIn = {"prompt", "model"}
    /\ Len(objs) = 2
    /\ objs[2].ok
    /\ objs[2].obj["model"] = payloadIn["model"]
    /\ objs[2].obj["aspect_ratio"] = "1:1"

SchemaNames == { schema.properties[i].name : i \in 1 .. Len(schema.properties) }

SchemaRequired == { schema.required[i] : i \in 1 .. Len(schema.required) }

SchemaEntry(n) ==
    schema.properties[CHOOSE i \in 1 .. Len(schema.properties) :
                            schema.properties[i].name = n].entry

\* The payload that gives a value to every declared field of t but n.
AllBut(t, n) == [ k \in FieldNames(t) \ {n} |-> "a cat" ]

\* C13: the schema of an options type lists every declared field exactly
\* once, in declaration order; a field is in "required" iff it has no
\* declared default; the reported default is the declared one, and None for
\* a required field; and the required fields are exactly the fields whose
\* absence from a payload makes options construction fail.
C13_SchemaMatchesDeclaration ==
    schema # NoSchema =>
        /\ Len(schema.properties) = Len(fields(optType))
        /\ \A i \in 1 .. Len(fields(optType)) :
              schema.properties[i].name = fields(optType)[i].name
        /\ \A n \in FieldNames(optType) :
              /\ Cardinality({ i \in 1 .. Len(schema.properties) :
                                    schema.properties[i].name = n }) = 1
              /\ Cardinality({ i \in 1 .. Len(schema.required) : schema.required[i] = n }) <= 1
              /\ (n \in SchemaRequired) <=> (DeclaredDefault(optType, n) = MISSING)
              /\ SchemaEntry(n).default =
                    IF DeclaredDefault(optType, n) = MISSING THEN None
                    ELSE DeclaredDefault(optType, n)
              /\ (n \in SchemaRequired) <=> ~build_options_object(optType, AllBut(optType, n)).ok
        /\ SchemaRequired \subseteq FieldNames(optType)
        /\ (objs # << >> /\ DOMAIN payloadIn \subseteq FieldNames(optType)) =>
              (Last(objs).ok <=> SchemaRequired \subseteq DOMAIN payloadIn)

\* C13 witness: the schema of RunpodNanoBananaImageEditingOptions requires
\* prompt and image_urls, reports the declared default None of aspect_ratio,
\* and a payload without image_urls was refused.
C13_Witness ==
    /\ optType = "RunpodNanoBananaImageEditingOptions"
    /\ schema.required = << "prompt", "image_urls" >>
    /\ SchemaEntry("aspect_ratio").default = None
    /\ SchemaEntry("resolution").default = "1k"
    /\ DOMAIN payloadIn = {"prompt", "resolution"}
    /\ objs # << >>
    /\ ~Last(objs).ok

(***************************************************************************)
(* The environment: backend answers.                                       *)
(***************************************************************************)
\* HTTP status codes the creation endpoint answers with.
StatusCodes == {200, 402, 429, 500}

IsSuccess(code) == code >= 200 /\ code <= 299

\* Bodies of the creation answer: JSON with the polling handle, JSON without
\* it (an error document), or a body that is not JSON.
Bodies(code) ==
    IF IsSuccess(code) THEN {"handle"} ELSE {"nohandle", "notjson"}

\* Asset URLs a backend hands out.
SampleUrls ==
    { [scheme |-> "https", name |-> "a", ext |-> ".png"],
      [scheme |-> "https", name |-> "b", ext |-> ".jpeg"],
      [scheme |-> "ftp",   name |-> "c", ext |-> ".png"] }

\* Statuses the status endpoint reports.
PollStatuses == {"Pending", "Ready", "Failed", "Error"}

\* Answers of the status endpoint: a Ready answer carries result.sample.
PollPayloads ==
    { [status |-> st, sample |-> NoUrl] : st \in PollStatuses \ {"Ready"} }
    \cup { [status |-> "Ready", sample |-> u] : u \in SampleUrls }

(***************************************************************************)
(* utils/s3.py                                                             *)
(***************************************************************************)
\* The variables validate_s3_env_vars requires, in the order it reads them.
required_vars ==
    <<"S3_ENDPOINT_URL", "S3_ACCESS_KEY", "S3_SECRET_KEY", "S3_REGION", "S3_CDN_URL",
      "S3_BUCKET">>

RequiredVarNames == { required_vars[i] : i \in DOMAIN required_vars }

\* Values of an environment variable, as sequences of characters: unset or
\* empty, whitespace only, and set (a CDN base with and without a final slash).
Unset == <<>>
Whitespace == <<" ">>
SetValue == <<"v">>
CdnBase == <<"c", "d", "n">>
CdnBaseSlash == <<"c", "d", "n", "/">>

IsSpace(c) == c \in {" ", "\t", "\n"}

\* str.strip()
Strip(chars) ==
    LET keep == { i \in 1 .. Len(chars) : ~IsSpace(chars[i]) } IN
    IF keep = {} THEN <<>>
    ELSE SubSeq(chars,
                CHOOSE i \in keep : \A j \in keep : i <= j,
                CHOOSE i \in keep : \A j \in keep : j <= i)

\* str.rstrip('/')
RstripSlash(chars) ==
    LET keep == { i \in 1 .. Len(chars) : chars[i] # "/" } IN
    IF keep = {} THEN <<>>
    ELSE SubSeq(chars, 1, CHOOSE i \in keep : \A j \in keep : j <= i)

\* os.environ.get(var_name, "")
Getenv(env, var_name) == env[var_name]

\* validate_s3_env_vars(): False at the first variable that is blank.
validate_s3_env_vars(env) ==
    \A i \in DOMAIN required_vars : Strip(Getenv(env, required_vars[i])) # <<>>

\* The settings create_s3_client hands to boto3.client.
ClientSettings == {"S3_ENDPOINT_URL", "S3_REGION", "S3_ACCESS_KEY", "S3_SECRET_KEY"}

\* create_s3_client(): the result of validate_s3_env_vars is dropped and
\* boto3.client is called with the settings as they are.  With every setting
\* present the client is returned; what boto3 does with a blank setting is
\* the library's business: it raises or it returns a client.
ClientOutcomes(env) ==
    IF \A v \in ClientSettings : Strip(Getenv(env, v)) # <<>>
    THEN {TRUE}
    ELSE BOOLEAN

\* s3.put_object(Bucket=bucket, ...): whether it succeeds is the storage
\* service's answer, except that a blank bucket name is refused.
PutOutcomes(env) ==
    IF Strip(Getenv(env, "S3_BUCKET")) = <<>> THEN {FALSE} ELSE BOOLEAN

IsHttp(u) == u.scheme \in {"http", "https"}

\* PurePosixPath(urlparse(source_url).path).suffix
Suffix(u) == u.ext

\* The public URL: f"{cdn_url.rstrip('/')}/{destination_key}" when S3_CDN_URL
\* is not empty, else f"{cdn_url}/{destination_key}"; destination_key is a
\* fresh uuid4 followed by the suffix of the source.
PublicUrl(env, key, source) ==
    LET cdn_url == Getenv(env, "S3_CDN_URL") IN
    [cdn |-> IF cdn_url # <<>> THEN RstripSlash(cdn_url) ELSE cdn_url,
     key |-> key,
     ext |-> Suffix(source)]

\* copy_url_to_s3(source_url): the outcome record of one call, given whether
\* the client creation, the download and the upload succeed.
CopyOutcome(env, source, clientOk, fetchOk, putOk) ==
    LET out(raised, url, client, download, upload, key) ==
            [raised |-> raised, url |-> url, client |-> client,
             download |-> download, upload |-> upload, key |-> key]
    IN
    IF ~clientOk
    THEN out("boto3.client failed", NoPublicUrl, 0, 0, 0, 0)
    ELSE IF source = NoUrl
    THEN out("AttributeError", NoPublicUrl, 1, 0, 0, 0)
    ELSE IF ~IsHttp(source)
    THEN out("source_url must be a valid HTTP/HTTPS URL", NoPublicUrl, 1, 0, 0, 0)
    ELSE IF ~fetchOk
    THEN out("Failed to copy", NoPublicUrl, 1, 1, 0, 1)
    ELSE IF ~putOk
    THEN out("Failed to copy", NoPublicUrl, 1, 1, 1, 1)
    ELSE out(None, PublicUrl(env, uuid + 1, source), 1, 1, 1, 1)

(***************************************************************************)
(* imagen/flux.py                                                          *)
(***************************************************************************)
\* FluxResponse.__init__
NewFluxResponse(body) ==
    [kind |-> "flux",
     image |-> None,
     polling_url |-> IF body = "handle" THEN "polling_url" ELSE None,
     request_id |-> IF body = "handle" THEN "id" ELSE None,
     retriveal_url |-> NoUrl,
     output |-> NoUrl]

\* FluxClient.generate_image: the error raised on the creation answer's
\* status code, None when the code raises nothing.
GenerateError(code) ==
    IF code = 429 THEN "Rate limit exceeded"
    ELSE IF code = 402 THEN "Out of credits"
    ELSE None

\* A _pool that reports done on every terminal status.
PoolDoneOnTerminal(status) == status \in {"Ready", "Failed", "Error"}

\* FluxResponse._pool: its return value for a status.
PoolDone(status) ==
    IF status \in {"Failed", "Error"} THEN FALSE
    ELSE IF status = "Ready" THEN TRUE
    ELSE FALSE

\* FluxResponse._pool: the response object after a poll answered `status`
\* with result.sample = `sample`.
PoolUpdate(r, status, sample) ==
    IF status \in {"Failed", "Error"} THEN r
    ELSE IF status = "Ready" THEN [r EXCEPT !.retriveal_url = sample]
    ELSE r

\* FluxResponse._retrieve_image: whether it downloads anything.
RetrieveDownloads(r) == r.retriveal_url # NoUrl

ZeroNet == [post |-> 0, poll |-> 0, download |-> 0, upload |-> 0]

ZeroS3 == [copies |-> 0, clients |-> 0, fetched |-> 0]

\* The environments a server process is started in: every subset of the
\* required variables unset, and the complete environment with one variable
\* whitespace only or with a CDN base that ends in a slash.
FullEnviron ==
    [v \in RequiredVarNames |-> IF v = "S3_CDN_URL" THEN CdnBase ELSE SetValue]

NoEnviron == [v \in RequiredVarNames |-> Unset]

Environments ==
    { [v \in RequiredVarNames |-> IF v \in unset THEN Unset ELSE FullEnviron[v]] :
        unset \in SUBSET RequiredVarNames }
    \cup { [FullEnviron EXCEPT ![v] = Whitespace] : v \in RequiredVarNames }
    \cup { [FullEnviron EXCEPT !["S3_CDN_URL"] = CdnBaseSlash] }

\* No response is being created or resolved.
ResolveOff ==
    /\ pc = "off"
    /\ backend = None
    /\ fr = NoResponse
    /\ genStatus = NoStatus
    /\ polled = <<>>
    /\ everReady = FALSE
    /\ returned = <<>>
    /\ err = None
    /\ net = ZeroNet
    /\ urlCalls = 0
    /\ s3 = ZeroS3

ResolveStart ==
    /\ pc = "idle"
    /\ backend = None
    /\ fr = NoResponse
    /\ genStatus = NoStatus
    /\ polled = <<>>
    /\ everReady = FALSE
    /\ returned = <<>>
    /\ err = None
    /\ net = ZeroNet
    /\ urlCalls = 0
    /\ s3 = ZeroS3

\* The process before any storage variable is read and any key drawn.
ProcessOff ==
    /\ environ = NoEnviron
    /\ uuid = 0

ProcessStart ==
    /\ environ \in Environments
    /\ uuid = 0

\* FluxClient.generate_image(options)
FluxGenerate ==
    /\ UNCHANGED outsideResolve
    /\ pc = "idle"
    /\ backend' = "flux"
    /\ \E code \in StatusCodes : \E body \in Bodies(code) :
        /\ genStatus' = code
        /\ net' = [net EXCEPT !.post = @ + 1]
        /\ IF GenerateError(code) # None
           THEN /\ err' = GenerateError(code)
                /\ pc' = "failed"
                /\ fr' = fr
           ELSE IF body = "notjson"
           THEN /\ err' = "JSONDecodeError"
                /\ pc' = "failed"
                /\ fr' = fr
           ELSE /\ err' = None
                /\ pc' = "created"
                /\ fr' = NewFluxResponse(body)
    /\ UNCHANGED <<polled, everReady, returned, uuid, urlCalls, environ, s3>>

\* FluxResponse.url() up to the first network call of pool(auto=True).
FluxUrlEnter ==
    /\ UNCHANGED outsideResolve
    /\ pc \in {"created", "returned", "raised"}
    /\ fr.kind = "flux"
    /\ urlCalls < MaxUrlCalls
    /\ urlCalls' = urlCalls + 1
    /\ polled' = <<>>
    /\ err' = IF fr.image = None /\ fr.polling_url = None
              THEN "No polling url found" ELSE None
    /\ pc' = IF fr.image # None THEN "copy"
             ELSE IF fr.polling_url = None THEN "raised"
             ELSE "poll"
    /\ UNCHANGED <<backend, fr, genStatus, everReady, returned, net, uuid, environ, s3>>

\* One turn of `while not self._pool(): time.sleep(1)`.
FluxPoll ==
    /\ UNCHANGED outsideResolve
    /\ pc = "poll"
    /\ net.poll < MaxPolls
    /\ \E result \in PollPayloads :
        /\ polled' = Append(polled, result)
        /\ everReady' = (everReady \/ result.status = "Ready")
        /\ fr' = PoolUpdate(fr, result.status, result.sample)
        /\ pc' = IF PoolDone(result.status) THEN "retrieve" ELSE "poll"
    /\ net' = [net EXCEPT !.poll = @ + 1]
    /\ UNCHANGED <<backend, genStatus, returned, err, uuid, urlCalls, environ, s3>>

\* FluxResponse._retrieve_image: download_image(self.retriveal_url).
FluxRetrieve ==
    /\ UNCHANGED outsideResolve
    /\ pc = "retrieve"
    /\ IF RetrieveDownloads(fr)
       THEN /\ net' = [net EXCEPT !.download = @ + 1]
            /\ \E ok \in BOOLEAN :
                IF ok
                THEN /\ fr' = [fr EXCEPT !.image = "image"]
                     /\ pc' = "copy"
                     /\ err' = err
                ELSE /\ fr' = fr
                     /\ pc' = "raised"
                     /\ err' = "download_image failed"
       ELSE /\ pc' = "copy"
            /\ UNCHANGED <<net, fr, err>>
    /\ UNCHANGED <<backend, genStatus, polled, everReady, returned, uuid, urlCalls, environ, s3>>

\* s3_url = copy_url_to_s3(self.retriveal_url); return s3_url
CopyAndReturn(source) ==
    \E clientOk \in ClientOutcomes(environ) :
    \E fetchOk \in BOOLEAN : \E putOk \in PutOutcomes(environ) :
        LET o == CopyOutcome(environ, source, clientOk, fetchOk, putOk) IN
        /\ net' = [net EXCEPT !.download = @ + o.download, !.upload = @ + o.upload]
        /\ s3' = [copies |-> s3.copies + 1,
                  clients |-> s3.clients + o.client,
                  fetched |-> s3.fetched + o.download]
        /\ uuid' = uuid + o.key
        /\ err' = o.raised
        /\ pc' = IF o.raised = None THEN "returned" ELSE "raised"
        /\ returned' = IF o.raised = None THEN Append(returned, o.url) ELSE returned

FluxCopy ==
    /\ UNCHANGED outsideResolve
    /\ pc = "copy"
    /\ fr.kind = "flux"
    /\ CopyAndReturn(fr.retriveal_url)
    /\ UNCHANGED <<backend, fr, genStatus, polled, everReady, urlCalls, environ>>

(***************************************************************************)
(* imagen/runpod_nanobanana.py                                             *)
(***************************************************************************)
\* RunpodNanoBananaResponse.__init__: self.response = response, whose
\* ["output"]["result"] is `result` (NoUrl when the answer has no such key).
NewNanoResponse(result) ==
    [kind |-> "nanobanana", image |-> None, polling_url |-> None, request_id |-> None,
     retriveal_url |-> NoUrl, output |-> result]

\* Bodies of the runsync answer: JSON with output.result, JSON without it,
\* or a body that is not JSON; an answer with an error status carries no result.
NanoBodies(code) ==
    IF IsSuccess(code) THEN {"result", "noresult", "notjson"} ELSE {"noresult", "notjson"}

\* RunpodNanoBananaClient.edit_image(options): the first source image is
\* downloaded when options.aspect_ratio is None, then the request is posted
\* and its JSON answer wrapped, whatever its status code.
NanoEdit ==
    /\ UNCHANGED outsideResolve
    /\ pc = "idle"
    /\ backend' = "nanobanana"
    /\ \E ratioGiven \in BOOLEAN : \E imageOk \in BOOLEAN :
       \E code \in StatusCodes : \E body \in NanoBodies(code) :
       \E result \in SampleUrls :
        IF ~ratioGiven /\ ~imageOk
        THEN /\ net' = [net EXCEPT !.download = @ + 1]
             /\ err' = "download_image failed"
             /\ pc' = "failed"
             /\ UNCHANGED <<fr, genStatus>>
        ELSE /\ net' = [net EXCEPT !.download = @ + (IF ratioGiven THEN 0 ELSE 1),
                                   !.post = @ + 1]
             /\ genStatus' = code
             /\ IF body = "notjson"
                THEN /\ err' = "JSONDecodeError"
                     /\ pc' = "failed"
                     /\ fr' = fr
                ELSE /\ err' = None
                     /\ pc' = "created"
                     /\ fr' = NewNanoResponse(IF body = "result" THEN result ELSE NoUrl)
    /\ UNCHANGED <<polled, everReady, returned, uuid, urlCalls, environ, s3>>

\* RunpodNanoBananaResponse.url()
NanoUrl ==
    /\ UNCHANGED outsideResolve
    /\ pc \in {"created", "returned", "raised"}
    /\ fr.kind = "nanobanana"
    /\ urlCalls < MaxUrlCalls
    /\ urlCalls' = urlCalls + 1
    /\ IF fr.output = NoUrl
       THEN /\ err' = "KeyError"
            /\ pc' = "raised"
            /\ UNCHANGED <<net, uuid, returned, s3>>
       ELSE CopyAndReturn(fr.output)
    /\ UNCHANGED <<backend, fr, genStatus, polled, everReady, environ>>

NextResolve ==
    \/ FluxGenerate
    \/ NanoEdit
    \/ NanoUrl
    \/ FluxUrlEnter
    \/ FluxPoll
    \/ FluxRetrieve
    \/ FluxCopy

(***************************************************************************)
(* Tool invocations (main.py): generate(options) / edit(options) of one    *)
(* backend, all running on the generator instance `gen` that build_mcp     *)
(* created for it.  An invocation moves statement by statement; steps that *)
(* touch only its own locals are taken together with the next step that    *)
(* reads or writes the instance.                                           *)
(***************************************************************************)
Invocations == 1 .. MaxInvocations

\* The JSON answer of the creation endpoint to the request of invocation
\* `to`, and the placeholder for "no answer".
Answer(to, code, body, result) ==
    [to |-> to, code |-> code, body |-> body, result |-> result]

NoAnswer == Answer(0, NoStatus, "none", NoUrl)

\* gen = gen_cls(cfg): ImageGenerator.__init__ sets generator_config only.
NewInstance(cls) == [cls |-> cls, generator_config |-> "cfg", response |-> NoAnswer]

\* _extract_options_type(gen_cls.generate_image / gen_cls.edit_image, ...)
ToolOptionsType(cls) ==
    IF cls = "flux" THEN "FluxImageGeneratorOptions"
    ELSE "RunpodNanoBananaImageEditingOptions"

\* Payloads the callers of a tool send: complete ones, with and without an
\* aspect ratio, and one that lacks a required field.
ToolPayloads(cls) ==
    IF cls = "flux"
    THEN { [k \in {"prompt"} |-> "a cat"], << >> }
    ELSE { [k \in {"prompt", "image_urls"} |-> "a cat"],
           [k \in {"prompt", "image_urls", "aspect_ratio"} |->
                IF k = "aspect_ratio" THEN "1:1" ELSE "a cat"],
           [k \in {"prompt"} |-> "a cat"] }

\* Values get_nearest_aspect_ratio returns for the first source image.
InferredRatios == {"3:2", "16:9"}

\* One entry of the step log of an invocation.
Step(name, ok) == [step |-> name, ok |-> ok]

NoResult == [of |-> 0, obj |-> NoResponse]

\* An invocation that has just been dispatched.
Called ==
    [pc |-> "called", options |-> NoObject, result |-> NoResult, polls |-> 0,
     steps |-> << >>, err |-> None, url |-> NoPublicUrl]

InvokeOff ==
    /\ calls = << >>
    /\ instance = NewInstance(None)

InvokeStart ==
    /\ calls = [i \in Invocations |-> Called]
    /\ instance \in { NewInstance(cls) : cls \in {"flux", "nanobanana"} }

Raise(c, error) == [c EXCEPT !.pc = "raised", !.err = error]

Log(c, name, ok) == [c EXCEPT !.steps = Append(@, Step(name, ok))]

\* opt_obj = _build_options_object(opt_type, options)
tool_build_options(i) ==
    /\ UNCHANGED <<outsideInvoke, processVars, instance>>
    /\ calls[i].pc = "called"
    /\ \E given \in ToolPayloads(instance.cls) :
        LET o == build_options_object(ToolOptionsType(instance.cls), given)
            c == Log(calls[i], "options", o.ok)
        IN  calls' = [calls EXCEPT ![i] =
                        IF o.ok THEN [c EXCEPT !.pc = "built", !.options = o.obj]
                        ELSE Raise(c, o.error)]

\* result = gen.generate_image(opt_obj) for FluxClient
generate_image(i) ==
    /\ UNCHANGED <<outsideInvoke, processVars, instance>>
    /\ calls[i].pc = "built"
    /\ instance.cls = "flux"
    /\ \E code \in StatusCodes : \E body \in Bodies(code) :
        LET c == Log(calls[i], "post", IsSuccess(code)) IN
        calls' = [calls EXCEPT ![i] =
                    IF GenerateError(code) # None THEN Raise(c, GenerateError(code))
                    ELSE IF body = "notjson" THEN Raise(c, "JSONDecodeError")
                    ELSE [c EXCEPT !.pc = "created",
                                   !.result = [of |-> i, obj |-> NewFluxResponse(body)]]]

\* _url_from_result(result) for a FluxResponse: url() -> pool(auto=True) up
\* to the polling loop.
flux_url(i) ==
    /\ UNCHANGED <<outsideInvoke, processVars, instance>>
    /\ calls[i].pc = "created"
    /\ calls[i].result.obj.kind = "flux"
    /\ calls' = [calls EXCEPT ![i] =
                    IF @.result.obj.polling_url = None
                    THEN Raise(@, "No polling url found")
                    ELSE [@ EXCEPT !.pc = "poll"]]

\* One turn of `while not self._pool(): time.sleep(1)`.
flux_pool(i) ==
    /\ UNCHANGED <<outsideInvoke, processVars, instance>>
    /\ calls[i].pc = "poll"
    /\ calls[i].polls < MaxPolls
    /\ \E answer \in PollPayloads :
        LET c == Log(calls[i], "poll", answer.status \notin {"Failed", "Error"}) IN
        calls' = [calls EXCEPT ![i] =
                    [c EXCEPT !.polls = @ + 1,
                              !.result.obj = PoolUpdate(@, answer.status, answer.sample),
                              !.pc = IF PoolDone(answer.status) THEN "retrieve" ELSE "poll"]]

\* return self._retrieve_image()
flux_retrieve_image(i) ==
    /\ UNCHANGED <<outsideInvoke, processVars, instance>>
    /\ calls[i].pc = "retrieve"
    /\ IF RetrieveDownloads(calls[i].result.obj)
       THEN \E ok \in BOOLEAN :
                LET c == Log(calls[i], "download", ok) IN
                calls' = [calls EXCEPT ![i] =
                            IF ok THEN [c EXCEPT !.pc = "copy", !.result.obj.image = "image"]
                            ELSE Raise(c, "download_image failed")]
       ELSE calls' = [calls EXCEPT ![i].pc = "copy"]

\* The step log after copy_url_to_s3 with outcome o.
CopyLog(steps, o, fetchOk, putOk) ==
    steps
    \o (IF o.download = 1 THEN << Step("download", fetchOk) >> ELSE << >>)
    \o (IF o.upload = 1 THEN << Step("upload", putOk) >> ELSE << >>)
    \o (IF o.raised = None THEN << Step("return", TRUE) >> ELSE << >>)

\* s3_url = copy_url_to_s3(source); return s3_url, as the last step of
\* invocation i.
copy_and_return(i, source) ==
    \E clientOk \in ClientOutcomes(environ) :
    \E fetchOk \in BOOLEAN : \E putOk \in PutOutcomes(environ) :
        LET o == CopyOutcome(environ, source, clientOk, fetchOk, putOk)
            c == [calls[i] EXCEPT !.steps = CopyLog(@, o, fetchOk, putOk)]
        IN  /\ uuid' = uuid + o.key
            /\ calls' = [calls EXCEPT ![i] =
                            IF o.raised = None
                            THEN [c EXCEPT !.pc = "returned", !.url = o.url]
                            ELSE Raise(c, o.raised)]

\* FluxResponse.url(): s3_url = copy_url_to_s3(self.retriveal_url)
flux_copy(i) ==
    /\ UNCHANGED <<outsideInvoke, environ, instance>>
    /\ calls[i].pc = "copy"
    /\ copy_and_return(i, calls[i].result.obj.retriveal_url)

\* result = gen.edit_image(opt_obj) for RunpodNanoBananaClient, up to and
\* including `self.response = response.json()`: the ratio is inferred from
\* the first source image when the options carry none, the request is
\* posted and its JSON answer is stored on the instance.
edit_image_post(i) ==
    /\ UNCHANGED <<outsideInvoke, processVars>>
    /\ calls[i].pc = "built"
    /\ instance.cls = "nanobanana"
    /\ \E imageOk \in BOOLEAN : \E ratio \in InferredRatios :
       \E code \in StatusCodes : \E body \in NanoBodies(code) : \E result \in SampleUrls :
        LET infer == calls[i].options["aspect_ratio"] = None
            c0 == IF infer THEN Log(calls[i], "source image", imageOk) ELSE calls[i]
            c1 == IF infer THEN [c0 EXCEPT !.options["aspect_ratio"] = ratio] ELSE c0
            c2 == Log(c1, "post", IsSuccess(code))
        IN  IF infer /\ ~imageOk
            THEN /\ calls' = [calls EXCEPT ![i] = Raise(c0, "download_image failed")]
                 /\ instance' = instance
            ELSE IF body = "notjson"
            THEN /\ calls' = [calls EXCEPT ![i] = Raise(c2, "JSONDecodeError")]
                 /\ instance' = instance
            ELSE /\ calls' = [calls EXCEPT ![i] = [c2 EXCEPT !.pc = "posted"]]
                 /\ instance' =
                        [instance EXCEPT !.response =
                            Answer(i, code, body, IF body = "result" THEN result ELSE NoUrl)]

\* return RunpodNanoBananaResponse(self.response, self.generator_config)
edit_image_return(i) ==
    /\ UNCHANGED <<outsideInvoke, processVars, instance>>
    /\ calls[i].pc = "posted"
    /\ calls' = [calls EXCEPT ![i] =
                    [@ EXCEPT !.pc = "created",
                              !.result = [of |-> instance.response.to,
                                          obj |-> NewNanoResponse(instance.response.result)]]]

\* _url_from_result(result) for a RunpodNanoBananaResponse: url()
nano_url(i) ==
    /\ calls[i].pc = "created"
    /\ calls[i].result.obj.kind = "nanobanana"
    /\ IF calls[i].result.obj.output = NoUrl
       THEN /\ calls' = [calls EXCEPT ![i] = Raise(@, "KeyError")]
            /\ UNCHANGED <<outsideInvoke, processVars, instance>>
       ELSE /\ copy_and_return(i, calls[i].result.obj.output)
            /\ UNCHANGED <<outsideInvoke, environ, instance>>

NextInvoke ==
    \E i \in Invocations :
        \/ tool_build_options(i)
        \/ generate_image(i)
        \/ flux_url(i)
        \/ flux_pool(i)
        \/ flux_retrieve_image(i)
        \/ flux_copy(i)
        \/ edit_image_post(i)
        \/ edit_image_return(i)
        \/ nano_url(i)

(***************************************************************************)
(* Specifications: one per part of the program.                            *)
(***************************************************************************)
\* Creating a response and resolving it to a URL.
InitResolve == ResolveStart /\ ProcessStart /\ InvokeOff /\ OptionsOff /\ ServerOff /\ RatioOff

SpecResolve == InitResolve /\ [][NextResolve]_vars

\* The registry at import time, build_mcp, and the image-list tool.
Init == ServerStart /\ ResolveOff /\ ProcessOff /\ InvokeOff /\ OptionsOff /\ RatioOff

Spec == Init /\ [][Next]_vars

\* Aspect-ratio inference.
InitRatio == RatioStart /\ ResolveOff /\ ProcessOff /\ InvokeOff /\ OptionsOff /\ ServerOff

SpecRatio == InitRatio /\ [][NextRatio]_vars

\* Two tool invocations of one backend, interleaved, in a process whose
\* storage variables are all set or all unset.
InitInvoke ==
    /\ InvokeStart
    /\ environ \in {FullEnviron, NoEnviron}
    /\ uuid = 0
    /\ ResolveOff /\ OptionsOff /\ ServerOff /\ RatioOff

SpecInvoke == InitInvoke /\ [][NextInvoke]_vars

\* Building options objects from payloads.
InitOptions == OptionsStart /\ ResolveOff /\ ProcessOff /\ InvokeOff /\ ServerOff /\ RatioOff

SpecOptions == InitOptions /\ [][NextOptions]_vars

(***************************************************************************)
(* Claims about response resolution.                                       *)
(***************************************************************************)
TerminalFailures == {"Failed", "Error"}

\* C1: once the status endpoint has answered Failed or Error during a Flux
\* resolution, the resolution has ended by raising: it is not polling any
\* more and has returned no URL.
C1_FailedStatusRaises ==
    (backend = "flux" /\ polled # <<>> /\ Last(polled).status \in TerminalFailures)
        => (pc = "raised" /\ err # None /\ returned = <<>>)

\* The statuses polled in the current url() call before the last one.
EarlierStatuses == { polled[i].status : i \in 1 .. (Len(polled) - 1) }

\* C2: a pending Flux response keeps polling while no answer was Ready,
\* leaves the polling loop exactly at the first Ready answer, holds from then
\* on the URL that answer carried, and no URL is recorded or returned before
\* a Ready answer was seen.
C2_ResolvesAtReady ==
    backend = "flux" =>
        /\ pc = "poll" => \A i \in 1 .. Len(polled) : polled[i].status # "Ready"
        /\ (pc \in {"retrieve", "copy", "returned", "raised"} /\ polled # <<>>) =>
              /\ Last(polled).status = "Ready"
              /\ "Ready" \notin EarlierStatuses
              /\ fr.retriveal_url = Last(polled).sample
        /\ (fr.retriveal_url # NoUrl) <=> everReady
        /\ returned # <<>> => everReady

\* C2 witness: the statuses Pending, Pending, Ready were polled and the URL
\* of the Ready answer was resolved and returned.
C2_Witness ==
    /\ backend = "flux" /\ pc = "returned"
    /\ Len(polled) = 3
    /\ polled[1].status = "Pending" /\ polled[2].status = "Pending"
    /\ polled[3].status = "Ready"
    /\ fr.retriveal_url = polled[3].sample
    /\ Len(returned) = 1

\* C3: a second url() call on a resolved response returns the URL of the
\* first call and issues no network call: after two returns the two URLs are
\* equal and one asset was uploaded.
C3_SecondUrlIdempotent ==
    Len(returned) = 2 =>
        /\ returned[2] = returned[1]
        /\ net.upload = 1
        /\ uuid = 1

\* C4: FluxClient.generate_image returns a response only for a success
\* status; 429 raises the rate-limit error, 402 the quota error and every
\* other non-2xx status raises as well.
C4_NonSuccessRaises ==
    (backend = "flux" /\ genStatus # NoStatus) =>
        /\ fr.kind = "flux" => IsSuccess(genStatus)
        /\ genStatus = 429 => (pc = "failed" /\ err = "Rate limit exceeded")
        /\ genStatus = 402 => (pc = "failed" /\ err = "Out of credits")
        /\ ~IsSuccess(genStatus) => (pc = "failed" /\ err # None)

\* C11: with a required object-storage variable missing or blank, a call of
\* copy_url_to_s3 ends the resolution with an error before storage is
\* touched: no client was created, no asset fetched or uploaded, and no URL
\* was returned.
C11_BlankEnvRaisesMisconfigured ==
    (~validate_s3_env_vars(environ) /\ s3.copies > 0) =>
        /\ s3.clients = 0
        /\ s3.fetched = 0
        /\ net.upload = 0
        /\ returned = <<>>
        /\ pc # "returned"

(***************************************************************************)
(* Claims about tool invocations.                                          *)
(***************************************************************************)
\* C12: invocations share no written state: the URL an invocation returns
\* comes from the backend's answer to its own request, and the generator
\* instance the tools share is as build_mcp constructed it.
C12_InvocationsShareNoState ==
    /\ \A i \in DOMAIN calls : calls[i].pc = "returned" => calls[i].result.of = i
    /\ instance = NewInstance(instance.cls)

\* The place of a step in the order options, creation request, polling,
\* download, upload, return; reading the first source image belongs to the
\* preparation of the creation request.
Rank(name) ==
    CASE name = "options" -> 1
      [] name = "source image" -> 2
      [] name = "post" -> 2
      [] name = "poll" -> 3
      [] name = "download" -> 4
      [] name = "upload" -> 5
      [] name = "return" -> 6

Times(steps, name) == Cardinality({ k \in 1 .. Len(steps) : steps[k].step = name })

\* A step `name` that succeeded is in the log before position k.
DoneBefore(steps, name, k) ==
    \E j \in 1 .. (k - 1) : steps[j].step = name /\ steps[j].ok

\* The steps of an invocation are in order: ranks never decrease, the
\* options, the creation request, the upload and the return happen at most
\* once, and each step has its predecessor behind it.
InOrder(c) ==
    /\ \A j, k \in 1 .. Len(c.steps) :
          j < k => Rank(c.steps[j].step) <= Rank(c.steps[k].step)
    /\ \A name \in {"options", "post", "upload", "return"} : Times(c.steps, name) <= 1
    /\ \A k \in 1 .. Len(c.steps) :
          LET name == c.steps[k].step IN
          /\ name \in {"source image", "post"} => DoneBefore(c.steps, "options", k)
          /\ name \in {"poll", "download"} => DoneBefore(c.steps, "post", k)
          /\ name = "upload" => DoneBefore(c.steps, "download", k)
          /\ name = "return" => k = Len(c.steps) /\ DoneBefore(c.steps, "upload", k)

\* A URL is held only by an invocation that returned, after its upload.
UrlAfterUpload(c) ==
    /\ (c.url # NoPublicUrl) <=> (c.pc = "returned")
    /\ c.pc = "returned" =>
          /\ Last(c.steps).step = "return"
          /\ DoneBefore(c.steps, "upload", Len(c.steps))
          /\ c.err = None

\* The invocation is at its end with an error, or it is about to wrap or
\* has in hand a response on which url() raises at once.
EndsInError(c) ==
    \/ c.pc = "raised" /\ c.err # None
    \/ c.pc = "posted" /\ instance.response.result = NoUrl
    \/ /\ c.pc = "created"
       /\ c.result.obj.polling_url = None
       /\ c.result.obj.output = NoUrl

\* No step follows a failed step, and a failed step ends the invocation with
\* an error and without URL.
FailureEnds(c) ==
    /\ \A k \in 1 .. (Len(c.steps) - 1) : c.steps[k].ok
    /\ (c.steps # << >> /\ ~Last(c.steps).ok) => (EndsInError(c) /\ c.url = NoPublicUrl)
    /\ c.pc = "raised" => (c.err # None /\ c.url = NoPublicUrl)

\* C14: in every invocation the steps occur in the order options, creation
\* request, polling, download, upload, return; a URL is returned only after
\* the upload succeeded; and a failed step ends the invocation with an error
\* and no URL, no further step being taken.
C14_StepsInOrderAndFailureEnds ==
    \A i \in DOMAIN calls :
        /\ InOrder(calls[i])
        /\ UrlAfterUpload(calls[i])
        /\ FailureEnds(calls[i])

====
